---- MODULE Spec2Model ----
(***************************************************************************)
(* BeatCanvas: the composition generation-and-validation pipeline of       *)
(* backend/app/services/openai_service.py.                                 *)
(*                                                                         *)
(*   generate_music_json   the retry loop around the oracle call           *)
(*   _attempt_generation   one attempt: call, decode, schema validation,   *)
(*                         length check, extension                         *)
(*   _extend_music_pattern the per-track pattern extender                  *)
(*   models.py             the composition schema (pydantic constraints)   *)
(*                                                                         *)
(* with the prompt constructor of backend/app/utils/prompt_builder.py and  *)
(* the converter of backend/app/services/midi_service.py.                  *)
(*                                                                         *)
(* Time.  start_time and duration are Python floats counted in quarter     *)
(* notes (beats).  The model counts them in ticks, TicksPerBeat ticks to   *)
(* the beat, so that every time of the length check and of the extender    *)
(* is an integer and their comparisons and rounding are computed exactly.  *)
(* The converter works on floats of MantissaBits significant bits.         *)
(***************************************************************************)
EXTENDS Integers, Sequences, FiniteSets, TLC

----------------------------------------------------------------------------
(* Bounds of the model *)

\* ticks in one quarter note: the resolution of start_time and duration
TicksPerBeat == 2
\* max_retries ranges over 0..MaxRetries
MaxRetries == 3
\* the requested bar count ranges over MinBars..MaxBars
MaxBars == 5
\* a composition of the extender's universe has at most MaxTracks tracks ...
MaxTracks == 2
\* ... and at most MaxNotes notes in all
MaxNotes == 2
\* significant bits of a float of the model
MantissaBits == 6

(* Program constants *)

\* GenerateRequest.bars: ge=4
MinBars == 4
\* quarter notes in a bar: bars * 4, and the bar the pattern length rounds to
BeatsPerBar == 4
\* NoteSchema.duration: le=16
MaxDuration == 16
\* pitch, velocity, midi_program: le=127
MaxMidi == 127

Beat == TicksPerBeat
BarTicks == BeatsPerBar * Beat

----------------------------------------------------------------------------
(* The composition schema, models.py *)

Note(p, s, d, v) == [pitch |-> p, start_time |-> s, duration |-> d, velocity |-> v]

Track(n, i, prog, ns) == [name |-> n, instrument |-> i, midi_program |-> prog, notes |-> ns]

Music(md, ts) == [metadata |-> md, tracks |-> ts]

\* MetadataSchema.key: pattern ^[A-G](#|b)?$
ValidKeys ==
    {"A", "B", "C", "D", "E", "F", "G",
     "A#", "B#", "C#", "D#", "E#", "F#", "G#",
     "Ab", "Bb", "Cb", "Db", "Eb", "Fb", "Gb"}

NoteValid(n) ==
    /\ n.pitch \in 0..MaxMidi
    /\ n.start_time >= 0
    /\ n.duration > 0
    /\ n.duration <= MaxDuration * Beat
    /\ n.velocity \in 0..MaxMidi

TrackValid(t) ==
    /\ t.midi_program \in 0..MaxMidi
    /\ \A i \in DOMAIN t.notes : NoteValid(t.notes[i])

MetadataValid(m) ==
    /\ m.tempo \in 60..200
    /\ m.bars \in 4..16
    /\ m.key \in ValidKeys
    /\ m.scale \in {"major", "minor"}

\* MusicSchema(**music_data): every required field present and in range,
\* tracks of length >= 1
SchemaValid(d) ==
    /\ {"metadata", "tracks"} \subseteq DOMAIN d
    /\ MetadataValid(d.metadata)
    /\ Len(d.tracks) >= 1
    /\ \A i \in DOMAIN d.tracks : TrackValid(d.tracks[i])

----------------------------------------------------------------------------
(* _attempt_generation, the length check (lines 231-261) *)

\* expected_quarter_notes = bars * 4, in ticks
ExpectedQuarterNotes(b) == b * BeatsPerBar * Beat

\* the loop "for note in track.notes": track_max is the largest
\* note.start_time + note.duration seen, starting from 0.0
RECURSIVE TrackMaxFrom(_, _, _)
TrackMaxFrom(notes, i, track_max) ==
    IF i > Len(notes) THEN track_max
    ELSE LET note_end == notes[i].start_time + notes[i].duration
         IN  TrackMaxFrom(notes, i + 1,
                          IF note_end > track_max THEN note_end ELSE track_max)

TrackMax(notes) == TrackMaxFrom(notes, 1, 0)

\* str.lower() on the track names of the model
Lower(name) ==
    CASE name = "Drums" -> "drums"
      [] name = "DRUMS" -> "drums"
      [] name = "Bass" -> "bass"
      [] name = "Melody" -> "melody"
      [] OTHER -> name

\* expected_notes.get(track_name_lower, bars * 2): the diagnostic minimum
ExpectedNotes(name, b) ==
    CASE Lower(name) = "drums" -> b * 8
      [] Lower(name) = "bass" -> b * 2
      [] Lower(name) = "melody" -> b * 4
      [] OTHER -> b * 2

\* status = "TOO FEW": printed, never read again
TooFew(track, b) == Len(track.notes) < ExpectedNotes(track.name, b)

\* TrackTooShort with <= for <
TrackTooShortInclusive(track, b) == TrackMax(track.notes) * 4 <= ExpectedQuarterNotes(b) * 3

\* "if track_max < expected_quarter_notes * 0.75: needs_extension = True"
TrackTooShort(track, b) == TrackMax(track.notes) * 4 < ExpectedQuarterNotes(b) * 3

NeedsExtension(ms, b) == \E i \in DOMAIN ms.tracks : TrackTooShort(ms.tracks[i], b)

----------------------------------------------------------------------------
(* _extend_music_pattern (lines 21-108) *)

\* Python 3 round(): to the nearest integer, a tie to the even one.
\* Round(x, unit) is round(x / unit) for x >= 0.
Round(x, unit) ==
    LET q == x \div unit
        r == x % unit
    IN  IF 2 * r < unit THEN q
        ELSE IF 2 * r > unit THEN q + 1
        ELSE IF q % 2 = 0 THEN q ELSE q + 1

\* PatternLength with int() for round()
PatternLengthTruncated(track_max) ==
    LET pattern_length == (track_max \div BarTicks) * BarTicks
    IN  IF pattern_length = 0 THEN BarTicks ELSE pattern_length

\* pattern_length = round(track_max / 4) * 4, and 4 when that is 0
PatternLength(track_max) ==
    LET pattern_length == Round(track_max, BarTicks) * BarTicks
    IN  IF pattern_length = 0 THEN BarTicks ELSE pattern_length

\* RepetitionsNeeded without the extra repetition
RepetitionsNeededNoExtra(target_length, pattern_length) ==
    target_length \div pattern_length

\* repetitions_needed = int(target_length / pattern_length) + 1
RepetitionsNeeded(target_length, pattern_length) ==
    (target_length \div pattern_length) + 1

\* CopyNote without the clipping of the duration
CopyNoteUnclipped(note, offset, target_length) ==
    LET new_start == note.start_time + offset
    IN  IF new_start < target_length
        THEN <<Note(note.pitch, new_start, note.duration, note.velocity)>>
        ELSE <<>>

\* one note of one repetition (lines 67-92): nothing, the clipped copy or
\* the copy
CopyNote(note, offset, target_length) ==
    LET new_start == note.start_time + offset
        new_end == new_start + note.duration
    IN  IF new_start < target_length
        THEN IF new_end > target_length
             THEN LET clipped_duration == target_length - new_start
                  IN  IF clipped_duration > 0
                      THEN <<Note(note.pitch, new_start, clipped_duration, note.velocity)>>
                      ELSE <<>>
             ELSE <<Note(note.pitch, new_start, note.duration, note.velocity)>>
        ELSE <<>>

\* CopyNotes that puts each copy in front of the copies made so far
RECURSIVE CopyNotesReversed(_, _, _, _)
CopyNotesReversed(notes, i, offset, target_length) ==
    IF i > Len(notes) THEN <<>>
    ELSE CopyNotesReversed(notes, i + 1, offset, target_length)
             \o CopyNote(notes[i], offset, target_length)

\* "for note in track.notes", from note i on
RECURSIVE CopyNotes(_, _, _, _)
CopyNotes(notes, i, offset, target_length) ==
    IF i > Len(notes) THEN <<>>
    ELSE CopyNote(notes[i], offset, target_length)
             \o CopyNotes(notes, i + 1, offset, target_length)

\* "for rep in range(repetitions_needed)", from repetition rep on
RECURSIVE Repeat(_, _, _, _, _)
Repeat(notes, rep, repetitions_needed, pattern_length, target_length) ==
    IF rep >= repetitions_needed THEN <<>>
    ELSE CopyNotes(notes, 1, pattern_length * rep, target_length)
             \o Repeat(notes, rep + 1, repetitions_needed, pattern_length, target_length)

\* ExtendTrack that leaves alone a track that has reached 0.75 of the target
ExtendTrackOnlyShort(track, target_length) ==
    LET track_max == TrackMax(track.notes)
    IN  IF track_max <= 0 \/ track_max * 4 >= target_length * 3 THEN track
        ELSE Track(track.name, track.instrument, track.midi_program,
                   Repeat(track.notes, 0,
                          RepetitionsNeeded(target_length, PatternLength(track_max)),
                          PatternLength(track_max), target_length))

\* ExtendTrack whose new TrackSchema takes the track name for the instrument
ExtendTrackRelabelled(track, target_length) ==
    LET track_max == TrackMax(track.notes)
    IN  IF track_max <= 0 THEN track
        ELSE Track(track.name, track.name, track.midi_program,
                   Repeat(track.notes, 0,
                          RepetitionsNeeded(target_length, PatternLength(track_max)),
                          PatternLength(track_max), target_length))

\* the body of "for track in music_schema.tracks"
ExtendTrack(track, target_length) ==
    LET track_max == TrackMax(track.notes)
    IN  IF track_max <= 0 THEN track
        ELSE LET pattern_length == PatternLength(track_max)
                 repetitions_needed == RepetitionsNeeded(target_length, pattern_length)
             IN  Track(track.name, track.instrument, track.midi_program,
                       Repeat(track.notes, 0, repetitions_needed, pattern_length,
                              target_length))

\* ExtendMusicPattern whose skip of a track without notes leaves it out of
\* extended_tracks
ExtendMusicPatternDropEmpty(ms, target_length) ==
    LET HasNotes(track) == track.notes # <<>>
        kept == SelectSeq(ms.tracks, HasNotes)
    IN  [ms EXCEPT !.tracks = [i \in DOMAIN kept |-> ExtendTrack(kept[i], target_length)]]

\* music_schema.tracks = extended_tracks
ExtendMusicPattern(ms, target_length) ==
    [ms EXCEPT !.tracks = [i \in DOMAIN ms.tracks |-> ExtendTrack(ms.tracks[i], target_length)]]

\* ValidateLength that extends whatever the check found
ValidateLengthAlways(ms, b) == ExtendMusicPattern(ms, ExpectedQuarterNotes(b))

\* lines 231-283: what _attempt_generation returns for a schema-valid object
ValidateLength(ms, b) ==
    IF NeedsExtension(ms, b)
    THEN ExtendMusicPattern(ms, ExpectedQuarterNotes(b))
    ELSE ms

----------------------------------------------------------------------------
(* The oracle's payloads *)

DefaultMetadata ==
    [tempo |-> 120, bars |-> 4, time_signature |-> <<4, 4>>, key |-> "C", scale |-> "major"]

\* Notes of the extender's universe.  The start times and durations are
\* chosen around the edges the length check and the extender have at 16 and
\* 20 beats: beat 0, the 0.75 threshold (10, 11), the last beat (15) and past
\* the end (17); less than a beat, one beat, two beats.
StartTimes == {0, 10 * Beat, 11 * Beat, 15 * Beat, 17 * Beat}

Durations == {1, Beat, 2 * Beat}

NotePool ==
    {Note(60, s, d, 100) : s \in StartTimes, d \in Durations}
        \cup {Note(36, 0, Beat, 80), Note(36, 15 * Beat, 2 * Beat, 80)}

\* name, instrument and midi_program of the i-th track of a universe
\* composition
TrackHead(i) ==
    CASE i % 3 = 1 -> [name |-> "Drums", instrument |-> "drums", midi_program |-> 0]
      [] i % 3 = 2 -> [name |-> "bass", instrument |-> "synth_bass", midi_program |-> 38]
      [] OTHER -> [name |-> "lead", instrument |-> "piano", midi_program |-> 0]

\* Sum of a tuple of numbers
RECURSIVE Sum(_)
Sum(c) == IF c = <<>> THEN 0 ELSE Head(c) + Sum(Tail(c))

\* how many notes each track holds: at most MaxTracks tracks and at most
\* MaxNotes notes in all
NoteCounts ==
    UNION {{c \in [1..n -> 0..MaxNotes] : Sum(c) <= MaxNotes} : n \in 1..MaxTracks}

\* the composition whose i-th track holds the next c[i] notes of flat
Composition(c, flat) ==
    Music(DefaultMetadata,
          [i \in DOMAIN c |->
              Track(TrackHead(i).name, TrackHead(i).instrument, TrackHead(i).midi_program,
                    SubSeq(flat, Sum(SubSeq(c, 1, i - 1)) + 1, Sum(SubSeq(c, 1, i))))])

\* A few compositions for the retry loop: one that covers four and five
\* bars, one that is too short, one with a track without notes, one in 3/4.
SampleCompositions ==
    {Music(DefaultMetadata,
           <<Track("drums", "drums", 0, <<Note(36, 0, 16 * Beat, 100), Note(38, 16 * Beat, 4 * Beat, 90)>>)>>),
     Music([DefaultMetadata EXCEPT !.bars = 8, !.tempo = 90],
           <<Track("Melody", "piano", 0, <<Note(60, 0, Beat, 100)>>),
             Track("bass", "synth_bass", 38, <<Note(36, 10 * Beat, 2 * Beat, 80)>>)>>),
     Music([DefaultMetadata EXCEPT !.time_signature = <<3, 4>>, !.scale = "minor"],
           <<Track("pad", "strings", 48, <<>>)>>),
     Music([DefaultMetadata EXCEPT !.time_signature = <<3, 4>>],
           <<Track("melody", "piano", 0, <<Note(64, 0, 10 * Beat, 100)>>)>>)}

ValidObject == Music(DefaultMetadata, <<Track("drums", "drums", 0, <<Note(36, 0, Beat, 100)>>)>>)

\* Objects that parse as JSON and that MusicSchema rejects
InvalidObjects ==
    {[ValidObject EXCEPT !.metadata.tempo = 250],
     [ValidObject EXCEPT !.metadata.bars = 32],
     [ValidObject EXCEPT !.metadata.scale = "dorian"],
     [ValidObject EXCEPT !.metadata.key = "H"],
     [ValidObject EXCEPT !.tracks = <<>>],
     [ValidObject EXCEPT !.tracks[1].midi_program = 128],
     [ValidObject EXCEPT !.tracks[1].notes[1].pitch = 128],
     [ValidObject EXCEPT !.tracks[1].notes[1].start_time = -1],
     [ValidObject EXCEPT !.tracks[1].notes[1].duration = 0],
     [ValidObject EXCEPT !.tracks[1].notes[1].duration = 17 * Beat],
     [ValidObject EXCEPT !.tracks[1].notes[1].velocity = -1],
     [tracks |-> ValidObject.tracks]}

NoData == [none |-> TRUE]

\* response.choices[0].message.content: None, "", a text that is no JSON, or
\* the text of a JSON object (data is the object)
Payloads ==
    {[kind |-> "none", data |-> NoData], [kind |-> "empty", data |-> NoData],
     [kind |-> "text", data |-> NoData]}
        \cup {[kind |-> "json", data |-> d] : d \in InvalidObjects \cup SampleCompositions}

NoPayload == [kind |-> "no_response", data |-> NoData]

----------------------------------------------------------------------------
(* Exceptions *)

\* the classes an exception is an instance of
Bases(exc) ==
    CASE exc = "JSONDecodeError" -> {"JSONDecodeError", "ValueError", "Exception"}
      [] exc = "ValidationError" -> {"ValidationError", "ValueError", "Exception"}
      [] exc = "ValueError" -> {"ValueError", "Exception"}
      [] exc = "APIError" -> {"APIError", "Exception"}
      [] OTHER -> {}

IsInstance(exc, cls) == cls \in Bases(exc)

\* AttemptRaises without MusicSchema(**music_data)
AttemptRaisesUnvalidated(p) ==
    IF p.kind \in {"none", "empty"} THEN "ValueError"
    ELSE IF p.kind = "text" THEN "JSONDecodeError"
    ELSE "none"

\* what _attempt_generation raises on a payload (lines 222-229), "none" when
\* it reaches the length check
AttemptRaises(p) ==
    IF p.kind \in {"none", "empty"} THEN "ValueError"
    ELSE IF p.kind = "text" THEN "JSONDecodeError"
    ELSE IF ~SchemaValid(p.data) THEN "ValidationError"
    ELSE "none"

\* ExceptClause with "except Exception" written first: nothing is retried
ExceptClauseExceptionFirst(exc) ==
    IF IsInstance(exc, "Exception") THEN "Exception"
    ELSE IF IsInstance(exc, "JSONDecodeError") THEN "JSONDecodeError"
    ELSE "uncaught"

\* ExceptClause with "except ValueError" for the retried clause
ExceptClauseValueError(exc) ==
    IF IsInstance(exc, "ValueError") THEN "JSONDecodeError"
    ELSE IF IsInstance(exc, "Exception") THEN "Exception"
    ELSE "uncaught"

\* ExceptClause with every exception retried
ExceptClauseRetryAll(exc) ==
    IF IsInstance(exc, "Exception") THEN "JSONDecodeError"
    ELSE "uncaught"

\* ExceptClause whose retried clause also takes a validation error
ExceptClauseRetryValidation(exc) ==
    IF IsInstance(exc, "JSONDecodeError") \/ IsInstance(exc, "ValidationError")
    THEN "JSONDecodeError"
    ELSE IF IsInstance(exc, "Exception") THEN "Exception"
    ELSE "uncaught"

\* the except clause of generate_music_json that takes the exception:
\* "except json.JSONDecodeError" (line 152) before "except Exception" (164)
ExceptClause(exc) ==
    IF IsInstance(exc, "JSONDecodeError") THEN "JSONDecodeError"
    ELSE IF IsInstance(exc, "Exception") THEN "Exception"
    ELSE "uncaught"

----------------------------------------------------------------------------
(* PromptBuilder.build_music_generation_prompt, prompt_builder.py 55-208 *)

(* A string of the prompt is a sequence of pieces: a run of literal text   *)
(* of the template, an argument or a table entry put in as it is, or one   *)
(* decimal digit of a formatted number.                                    *)

\* tempo: Optional[int] = None; "if tempo:" takes None and 0 alike
Absent == 0

DigitChars == <<"0", "1", "2", "3", "4", "5", "6", "7", "8", "9">>

\* Str with the digits in the order the division yields them
RECURSIVE StrReversed(_)
StrReversed(n) ==
    IF n < 10 THEN <<DigitChars[n + 1]>>
    ELSE <<DigitChars[(n % 10) + 1]>> \o StrReversed(n \div 10)

\* f"{n}" for an int n >= 0: its decimal digits, the most significant first
RECURSIVE Str(_)
Str(n) ==
    IF n < 10 THEN <<DigitChars[n + 1]>>
    ELSE Str(n \div 10) \o <<DigitChars[(n % 10) + 1]>>

\* genre.lower().replace("-", "").replace(" ", "") on the genres of the model
GenreKey(genre) ==
    CASE genre = "EDM" -> "edm"
      [] genre = "Hip-Hop" -> "hiphop"
      [] genre = "hip-hop" -> "hiphop"
      [] genre = "hip hop" -> "hiphop"
      [] genre = "Jazz" -> "jazz"
      [] genre = "Lo-Fi" -> "lofi"
      [] OTHER -> genre

\* mood.lower() on the moods of the model
MoodKey(mood) ==
    CASE mood = "Happy" -> "happy"
      [] mood = "SAD" -> "sad"
      [] mood = "Energetic" -> "energetic"
      [] OTHER -> mood

GENRE_GUIDELINES ==
    [k \in {"edm", "hip-hop", "jazz", "rock", "ambient"} |->
        CASE k = "edm" ->
                 [tempo_range |-> "120-140",
                  description |-> "Fast tempo, four-on-floor kick pattern, synth leads, energetic"]
          [] k = "hip-hop" ->
                 [tempo_range |-> "80-100",
                  description |-> "Medium tempo, heavy bass, syncopated hi-hats, laid-back groove"]
          [] k = "jazz" ->
                 [tempo_range |-> "100-140",
                  description |-> "Swing feel, walking bass, complex harmonies, improvisation"]
          [] k = "rock" ->
                 [tempo_range |-> "110-130",
                  description |-> "Steady drums, electric guitar/bass, driving energy"]
          [] k = "ambient" ->
                 [tempo_range |-> "60-90",
                  description |-> "Slow tempo, sustained pads, minimal drums, atmospheric"]]

MOOD_GUIDELINES ==
    [k \in {"happy", "sad", "energetic", "calm"} |->
        CASE k = "happy" -> "Major key, higher velocities (90-120), busy rhythms, uplifting"
          [] k = "sad" -> "Minor key, lower velocities (50-80), slower movement, melancholic"
          [] k = "energetic" -> "Fast tempo, many notes, strong accents, driving rhythm"
          [] k = "calm" -> "Slow tempo, sparse notes, soft dynamics, gentle"]

\* dict.get(key, default)
Get(dict, key, default) == IF key \in DOMAIN dict THEN dict[key] ELSE default

\* the prompt, lines 74-208
BuildMusicGenerationPrompt(genre, mood, tempo, bars) ==
    LET genre_key == GenreKey(genre)
        mood_key == MoodKey(mood)
        genre_info == Get(GENRE_GUIDELINES, genre_key,
                          [tempo_range |-> "90-130", description |-> "General music style"])
        mood_info == Get(MOOD_GUIDELINES, mood_key, "Appropriate to the specified mood")
        max_quarter_notes == bars * 4
        tempo_instruction ==
            IF tempo # Absent
            THEN <<"Use exactly ">> \o Str(tempo) \o <<" BPM as specified.">>
            ELSE <<"Choose an appropriate tempo in the range ">> \o <<genre_info.tempo_range>>
                     \o <<" BPM based on the genre.">>
    IN  <<"You are a music composition AI. Generate a ">> \o Str(bars) \o <<"-bar music loop in JSON format.\n">>
        \o <<"\n">>
        \o <<"**CRITICAL REQUIREMENTS:**\n">>
        \o <<"Genre: ">> \o <<genre>> \o <<"\n">>
        \o <<"Mood: ">> \o <<mood>> \o <<"\n">>
        \o <<"Bars: ">> \o Str(bars) \o <<" bars\n">>
        \o tempo_instruction \o <<"\n">>
        \o <<"\n">>
        \o <<"**IMPORTANT - COMPOSITION LENGTH:**\n">>
        \o <<"- You MUST create EXACTLY ">> \o Str(bars) \o <<" bars of music\n">>
        \o <<"- In 4/4 time, ">> \o Str(bars) \o <<" bars = ">> \o Str(max_quarter_notes) \o <<" quarter notes total\n">>
        \o <<"- Your notes MUST span from 0 to approximately ">> \o Str(max_quarter_notes) \o <<" quarter notes\n">>
        \o <<"- DO NOT create just 2-4 bars when asked for ">> \o Str(bars) \o <<" bars\n">>
        \o <<"- The music should loop seamlessly from 0 to ">> \o Str(max_quarter_notes) \o <<"\n">>
        \o <<"\n">>
        \o <<"**Musical Structure:**\n">>
        \o <<"1. Create 3-4 instrument tracks:\n">>
        \o <<"   - drums (required): Use MIDI program 0, is_drum track\n">>
        \o <<"     * Create a FULL drum pattern with kick (36), snare (38), and hi-hats (42)\n">>
        \o <<"     * Include at least ">> \o Str(bars * 8) \o <<" drum notes total\n">>
        \o <<"   - bass (required): Use MIDI programs 32-39\n">>
        \o <<"     * Include at least ">> \o Str(bars * 2) \o <<" bass notes\n">>
        \o <<"   - melody (required): Use MIDI programs 0-7 (piano), 24-31 (guitar), or 80-87 (synth leads)\n">>
        \o <<"     * Include at least ">> \o Str(bars * 4) \o <<" melody notes\n">>
        \o <<"   - chords (optional): Use MIDI programs 0-7 (piano) or 48-55 (strings)\n">>
        \o <<"\n">>
        \o <<"2. Timing (CRITICAL):\n">>
        \o <<"   - All notes must have start_time between 0 and ">> \o Str(max_quarter_notes) \o <<" quarter notes\n">>
        \o <<"   - Distribute notes throughout the ENTIRE ">> \o Str(max_quarter_notes) \o <<" quarter note range\n">>
        \o <<"   - Create patterns that repeat or develop across all ">> \o Str(bars) \o <<" bars\n">>
        \o <<"   - For drums: create patterns that fill all ">> \o Str(bars) \o <<" bars (not just the first 2 bars)\n">>
        \o <<"   - For bass/melody: create phrases that span the full ">> \o Str(bars) \o <<" bars\n">>
        \o <<"   - Align notes to reasonable rhythmic subdivisions (whole, half, quarter, eighth, sixteenth notes)\n">>
        \o <<"\n">>
        \o <<"3. Genre Guidelines (">> \o <<genre>> \o <<"):\n">>
        \o <<"   - ">> \o <<genre_info.description>> \o <<"\n">>
        \o <<"   - Tempo range: ">> \o <<genre_info.tempo_range>> \o <<" BPM\n">>
        \o <<"\n">>
        \o <<"4. Mood Guidelines (">> \o <<mood>> \o <<"):\n">>
        \o <<"   - ">> \o <<mood_info>> \o <<"\n">>
        \o <<"\n">>
        \o <<"5. Key and Scale:\n">>
        \o <<"   - Choose an appropriate key (C, D, E, F, G, A, B, with optional # or b)\n">>
        \o <<"   - Use major scale for uplifting moods, minor for melancholic moods\n">>
        \o <<"\n">>
        \o <<"6. Pattern Distribution Examples for ">> \o Str(bars) \o <<" bars:\n">>
        \o <<"   - Drums: Create DENSE kick/snare/hi-hat patterns for all ">> \o Str(bars) \o <<" bars\n">>
        \o <<"     * Include kick, snare, and hi-hats throughout the entire composition\n">>
        \o <<"     * Hi-hats should appear on most eighth or sixteenth notes for rhythm\n">>
        \o <<"     * Don't be sparse - drums should be present and audible throughout\n">>
        \o <<"   - Bass: Create bass lines that progress from 0 to ">> \o Str(max_quarter_notes) \o <<" quarter notes\n">>
        \o <<"   - Melody: Distribute melodic phrases across all ">> \o Str(bars) \o <<" bars, not just the first 2-4 bars\n">>
        \o <<"   - Example: If generating ">> \o Str(bars) \o <<" bars, your last notes should be near ">> \o Str(max_quarter_notes) \o <<" quarter notes\n">>
        \o <<"\n">>
        \o <<"**MIDI Drum Map (pitch values):**\n">>
        \o <<"- 36: Kick (bass drum)\n">>
        \o <<"- 38: Snare\n">>
        \o <<"- 42: Closed hi-hat\n">>
        \o <<"- 46: Open hi-hat\n">>
        \o <<"- 49: Crash cymbal\n">>
        \o <<"- 51: Ride cymbal\n">>
        \o <<"- 41, 43, 45: Toms (low to high)\n">>
        \o <<"- 48, 50: Toms (mid to high)\n">>
        \o <<"\n">>
        \o <<"**Musical Coherence:**\n">>
        \o <<"- Create rhythmically aligned patterns that loop seamlessly\n">>
        \o <<"- Use appropriate note velocities (0-127) for dynamics\n">>
        \o <<"- Ensure bass and melody complement each other harmonically\n">>
        \o <<"- Make drums provide a solid rhythmic foundation\n">>
        \o <<"\n">>
        \o <<"**Output Format:**\n">>
        \o <<"Return ONLY valid JSON with this exact structure (no additional text):\n">>
        \o <<"\n">>
        \o <<"{\n">>
        \o <<"  \"metadata\": {\n">>
        \o <<"    \"tempo\": <integer 60-200>,\n">>
        \o <<"    \"bars\": ">> \o Str(bars) \o <<",\n">>
        \o <<"    \"time_signature\": [4, 4],\n">>
        \o <<"    \"key\": \"<string>\",\n">>
        \o <<"    \"scale\": \"<major or minor>\"\n">>
        \o <<"  },\n">>
        \o <<"  \"tracks\": [\n">>
        \o <<"    {\n">>
        \o <<"      \"name\": \"drums\",\n">>
        \o <<"      \"instrument\": \"drums\",\n">>
        \o <<"      \"midi_program\": 0,\n">>
        \o <<"      \"notes\": [\n">>
        \o <<"        {\n">>
        \o <<"          \"pitch\": <integer 0-127>,\n">>
        \o <<"          \"start_time\": <float 0-">> \o Str(max_quarter_notes) \o <<">,\n">>
        \o <<"          \"duration\": <float>,\n">>
        \o <<"          \"velocity\": <integer 0-127>\n">>
        \o <<"        }\n">>
        \o <<"      ]\n">>
        \o <<"    },\n">>
        \o <<"    {\n">>
        \o <<"      \"name\": \"bass\",\n">>
        \o <<"      \"instrument\": \"<bass instrument>\",\n">>
        \o <<"      \"midi_program\": <integer 32-39>,\n">>
        \o <<"      \"notes\": [...]\n">>
        \o <<"    },\n">>
        \o <<"    {\n">>
        \o <<"      \"name\": \"melody\",\n">>
        \o <<"      \"instrument\": \"<melodic instrument>\",\n">>
        \o <<"      \"midi_program\": <integer>,\n">>
        \o <<"      \"notes\": [...]\n">>
        \o <<"    }\n">>
        \o <<"  ]\n">>
        \o <<"}\n">>
        \o <<"\n">>
        \o <<"Generate musically coherent, genre-appropriate, and mood-fitting composition. Output valid JSON only.">>

----------------------------------------------------------------------------
(* MidiService.convert_json_to_midi, midi_service.py lines 24-59 *)

(* Python floats.  A float is a rational [num, den] in lowest terms whose  *)
(* value has at most MantissaBits significant bits; every operation gives   *)
(* the exact result rounded to the nearest such value, a tie to the even   *)
(* mantissa.  A double has 53 bits; the model has MantissaBits.             *)

RECURSIVE Pow2(_)
Pow2(k) == IF k = 0 THEN 1 ELSE 2 * Pow2(k - 1)

RECURSIVE GCD(_, _)
GCD(a, b) == IF b = 0 THEN a ELSE GCD(b, a % b)

\* n / d in lowest terms
Rat(n, d) == [num |-> n \div GCD(n, d), den |-> d \div GCD(n, d)]

\* the floats with a one-unit mantissa step lie in [MantissaLow, MantissaHigh)
MantissaLow == Pow2(MantissaBits - 1)
MantissaHigh == Pow2(MantissaBits)

\* the float nearest to (n / d) x (up / down): n / d is brought into
\* [MantissaLow, MantissaHigh) by doublings of n or of d, then rounded to an
\* integer, a tie to the even one
RECURSIVE FlScaled(_, _, _, _)
FlScaled(n, d, up, down) ==
    IF n < d * MantissaLow THEN FlScaled(2 * n, d, up, 2 * down)
    ELSE IF n >= d * MantissaHigh THEN FlScaled(n, 2 * d, 2 * up, down)
    ELSE Rat(Round(n, d) * up, down)

\* the float nearest to n / d, n >= 0 and d > 0
Fl(n, d) == IF n = 0 THEN Rat(0, 1) ELSE FlScaled(n, d, 1, 1)

FloatAdd(a, b) == Fl(a.num * b.den + b.num * a.den, a.den * b.den)
FloatMul(a, b) == Fl(a.num * b.num, a.den * b.den)
FloatDiv(a, b) == Fl(a.num * b.den, a.den * b.num)

\* the float of a start_time or duration of the model: ticks / TicksPerBeat
FloatOfTicks(ticks) == Fl(ticks, TicksPerBeat)

\* SecondsPerBeat for the default tempo, whatever the composition declares
SecondsPerBeatDefault(tempo_bpm) == FloatDiv(Fl(60, 1), Fl(120, 1))

\* seconds_per_beat = 60.0 / tempo
SecondsPerBeat(tempo_bpm) == FloatDiv(Fl(60, 1), Fl(tempo_bpm, 1))

\* pretty_midi.Note(velocity, pitch, start, end) of lines 45-54
MidiNote(note_data, seconds_per_beat) ==
    [velocity |-> note_data.velocity,
     pitch |-> note_data.pitch,
     start |-> FloatMul(FloatOfTicks(note_data.start_time), seconds_per_beat),
     end |-> FloatMul(FloatAdd(FloatOfTicks(note_data.start_time),
                               FloatOfTicks(note_data.duration)),
                      seconds_per_beat)]

\* str.lower() on the instrument labels of the model
LowerInstrument(instrument) ==
    CASE instrument = "Drums" -> "drums"
      [] instrument = "DRUMS" -> "drums"
      [] instrument = "Drum Kit" -> "drum kit"
      [] OTHER -> instrument

\* is_drum_track = track.instrument.lower() == "drums"
IsDrumTrack(track) == LowerInstrument(track.instrument) = "drums"

\* pretty_midi.Instrument(program, is_drum, name) with its notes, lines 35-56
MidiInstrument(track, seconds_per_beat) ==
    [program |-> track.midi_program,
     is_drum |-> IsDrumTrack(track),
     name |-> track.name,
     notes |-> [k \in DOMAIN track.notes |-> MidiNote(track.notes[k], seconds_per_beat)]]

\* the PrettyMIDI object that convert_json_to_midi writes
ConvertJsonToMidi(music_data) ==
    LET seconds_per_beat == SecondsPerBeat(music_data.metadata.tempo)
    IN  [initial_tempo |-> Fl(music_data.metadata.tempo, 1),
         instruments |-> [i \in DOMAIN music_data.tracks |->
                             MidiInstrument(music_data.tracks[i], seconds_per_beat)]]

NoMidi == [none |-> TRUE]

\* the response header "X-Bars": str(music_data.metadata.bars), endpoints.py
\* line 137
XBars(music_data) == Str(music_data.metadata.bars)

\* Compositions of the converter's universe: a declared tempo, a first
\* track whose name and instrument label vary, notes early in the piece and
\* at beat 2^MantissaBits, of one tick and of one beat.
MidiTempos == {90, 120, 200}

MidiNotePool ==
    {Note(60, s, d, 100) : s \in {2 * Beat, Pow2(MantissaBits) * Beat}, d \in {1, Beat}}

FirstTrackHeads ==
    {[name |-> "drums", instrument |-> "drums", midi_program |-> 0],
     [name |-> "Drums", instrument |-> "percussion", midi_program |-> 0],
     [name |-> "DRUMS", instrument |-> "Drum Kit", midi_program |-> 0],
     [name |-> "lead", instrument |-> "DRUMS", midi_program |-> 0]}

\* Composition(c, flat) with the declared tempo and the first track's head
MidiComposition(tempo_bpm, head, c, flat) ==
    LET d == Composition(c, flat)
    IN  [d EXCEPT !.metadata.tempo = tempo_bpm,
                  !.tracks[1].name = head.name,
                  !.tracks[1].instrument = head.instrument,
                  !.tracks[1].midi_program = head.midi_program]

----------------------------------------------------------------------------
(* generate_music_json (lines 110-169) and _attempt_generation (171-283) *)

VARIABLES
    max_retries,      \* the argument max_retries
    bars,             \* the argument bars
    genre,            \* the argument genre
    mood,             \* the argument mood
    tempo,            \* the argument tempo, Absent for None
    pc,               \* "start": before the prompt is built; "loop": at the head
                      \* of the for loop; "calling": inside
                      \* client.chat.completions.create; "done": returned or raised
    prompt,           \* the local prompt
    sent,             \* the prompt of each oracle call, in order
    attempt,          \* the loop variable
    calls,            \* oracle calls started so far
    history,          \* what the oracle did on each call, in order
    payload,          \* the content of the last response
    last_error,       \* the variable last_error
    music_schema,     \* the composition returned
    needs_extension,  \* the local of the last length check
    result,           \* how generate_music_json ended
    midi              \* the PrettyMIDI object made of the composition returned

vars == <<max_retries, bars, genre, mood, tempo, pc, prompt, sent, attempt, calls, history,
          payload, last_error, music_schema, needs_extension, result, midi>>

\* max_retries: int = 3
DefaultMaxRetries == 3

Bars == MinBars..MaxBars

Start ==
    /\ pc = "start"
    /\ prompt = <<>>
    /\ sent = <<>>
    /\ attempt = 0
    /\ calls = 0
    /\ history = <<>>
    /\ payload = NoPayload
    /\ last_error = "None"
    /\ music_schema = NoData
    /\ needs_extension = FALSE
    /\ result = "none"
    /\ midi = NoMidi

\* the request of the example of GenerateRequest, models.py lines 22-27
ExampleRequest ==
    /\ genre = "EDM"
    /\ mood = "Energetic"
    /\ tempo = 128

Init ==
    /\ max_retries \in 0..MaxRetries
    /\ bars \in Bars
    /\ ExampleRequest
    /\ Start

\* prompt = PromptBuilder.build_music_generation_prompt(...), lines 136-141
BuildPrompt ==
    /\ pc = "start"
    /\ prompt' = BuildMusicGenerationPrompt(genre, mood, tempo, bars)
    /\ pc' = "loop"
    /\ UNCHANGED <<max_retries, bars, genre, mood, tempo, sent, attempt, calls, history,
                   payload, last_error, music_schema, needs_extension, result, midi>>

\* "for attempt in range(max_retries)" enters its body and the attempt calls
\* the oracle (lines 146-150, 189-206)
BeginAttempt ==
    /\ pc = "loop"
    /\ attempt < max_retries
    /\ pc' = "calling"
    /\ calls' = calls + 1
    /\ sent' = Append(sent, prompt)
    /\ UNCHANGED <<max_retries, bars, genre, mood, tempo, prompt, attempt, history, payload,
                   last_error, music_schema, needs_extension, result, midi>>

\* the loop ends without a return or a raise: line 169
LoopExhausted ==
    /\ pc = "loop"
    /\ attempt >= max_retries
    /\ pc' = "done"
    /\ result' = "ValueError_failed"
    /\ UNCHANGED <<max_retries, bars, genre, mood, tempo, prompt, sent, attempt, calls,
                   history, payload, last_error, music_schema, needs_extension, midi>>

\* the attempt raised exc: lines 152-166
Raised(exc) ==
    IF ExceptClause(exc) = "JSONDecodeError"
    THEN /\ last_error' = exc
         /\ IF attempt < max_retries - 1
            THEN /\ attempt' = attempt + 1
                 /\ pc' = "loop"
                 /\ result' = result
            ELSE /\ attempt' = attempt
                 /\ pc' = "done"
                 /\ result' = "ValueError_invalid_json"
    ELSE /\ last_error' = last_error
         /\ attempt' = attempt
         /\ pc' = "done"
         /\ result' = "Exception_api_error"

\* the oracle call raises: a provider or transport failure
OracleRaises ==
    /\ pc = "calling"
    /\ history' = Append(history, "provider_failure")
    /\ Raised("APIError")
    /\ UNCHANGED <<max_retries, bars, genre, mood, tempo, prompt, sent, calls, payload,
                   music_schema, needs_extension, midi>>

\* the oracle call returns content p: the rest of _attempt_generation, and
\* the return or the except clause of generate_music_json
Returns(p, label) ==
    /\ payload' = p
    /\ history' = Append(history, label)
    /\ IF AttemptRaises(p) = "none"
       THEN /\ needs_extension' = NeedsExtension(p.data, bars)
            /\ music_schema' = ValidateLength(p.data, bars)
            /\ pc' = "done"
            /\ result' = "returned"
            /\ UNCHANGED <<attempt, last_error>>
       ELSE /\ Raised(AttemptRaises(p))
            /\ UNCHANGED <<music_schema, needs_extension>>
    /\ UNCHANGED <<max_retries, bars, genre, mood, tempo, prompt, sent, calls, midi>>

\* content is None or ""
OracleReturnsNothing ==
    /\ pc = "calling"
    /\ \E p \in Payloads : p.kind \in {"none", "empty"} /\ Returns(p, "nothing")

\* content is no JSON
OracleReturnsText ==
    /\ pc = "calling"
    /\ \E p \in Payloads : p.kind = "text" /\ Returns(p, "text")

\* content is a JSON object that the schema rejects
OracleReturnsInvalidObject ==
    /\ pc = "calling"
    /\ \E p \in Payloads : p.kind = "json" /\ p.data \in InvalidObjects /\ Returns(p, "invalid_object")

\* content is a schema-valid composition
OracleReturnsComposition ==
    /\ pc = "calling"
    /\ \E p \in Payloads : p.kind = "json" /\ p.data \in SampleCompositions /\ Returns(p, "composition")

Next ==
    \/ BuildPrompt
    \/ BeginAttempt
    \/ LoopExhausted
    \/ OracleRaises
    \/ OracleReturnsNothing
    \/ OracleReturnsText
    \/ OracleReturnsInvalidObject
    \/ OracleReturnsComposition

Spec == Init /\ [][Next]_vars

\* The request goes on as long as it can: the oracle call is a blocking call
\* that returns or raises, and the loop runs on one thread.
SpecFair == Spec /\ WF_vars(Next)

(* The length validator and extender on every composition of the universe: *)
(* one request with the default max_retries whose oracle returns a         *)
(* schema-valid composition.                                               *)

InitExtender ==
    /\ max_retries = DefaultMaxRetries
    /\ bars \in Bars
    /\ ExampleRequest
    /\ Start

OracleReturnsAnyComposition ==
    /\ pc = "calling"
    /\ \E c \in NoteCounts : \E flat \in [1..Sum(c) -> NotePool] :
           Returns([kind |-> "json", data |-> Composition(c, flat)], "composition")

NextExtender ==
    \/ BuildPrompt
    \/ BeginAttempt
    \/ OracleReturnsAnyComposition

SpecExtender == InitExtender /\ [][NextExtender]_vars

(* The converter on every composition of its universe: one request whose   *)
(* oracle returns a schema-valid composition, which the endpoint hands to  *)
(* convert_json_to_midi (endpoints.py lines 71-92).                        *)

OracleReturnsMidiComposition ==
    /\ pc = "calling"
    /\ \E tempo_bpm \in MidiTempos : \E head \in FirstTrackHeads :
       \E c \in NoteCounts : \E flat \in [1..Sum(c) -> MidiNotePool] :
           Returns([kind |-> "json", data |-> MidiComposition(tempo_bpm, head, c, flat)],
                   "composition")

\* midi_service.convert_json_to_midi(music_data, midi_path)
ConvertToMidi ==
    /\ pc = "done"
    /\ result = "returned"
    /\ midi = NoMidi
    /\ midi' = ConvertJsonToMidi(music_schema)
    /\ UNCHANGED <<max_retries, bars, genre, mood, tempo, pc, prompt, sent, attempt, calls,
                   history, payload, last_error, music_schema, needs_extension, result>>

NextMidi ==
    \/ BuildPrompt
    \/ BeginAttempt
    \/ OracleReturnsMidiComposition
    \/ ConvertToMidi

SpecMidi == InitExtender /\ [][NextMidi]_vars

(* The prompt constructor on every request of its universe: genres and     *)
(* moods in and out of the tables, in several spellings, the tempo absent  *)
(* or in 60..180, 4, 8 or 16 bars; the request ends with a provider        *)
(* failure.                                                                *)

Genres == {"EDM", "edm", "Hip-Hop", "hip-hop", "hip hop", "Jazz", "rock", "Lo-Fi", "polka"}

Moods == {"Happy", "SAD", "Energetic", "calm", "angry"}

RequestTempos == {Absent, 60, 128, 180}

RequestBars == {4, 8, 16}

InitPrompt ==
    /\ max_retries = DefaultMaxRetries
    /\ bars \in RequestBars
    /\ genre \in Genres
    /\ mood \in Moods
    /\ tempo \in RequestTempos
    /\ Start

NextPrompt ==
    \/ BuildPrompt
    \/ BeginAttempt
    \/ OracleRaises

SpecPrompt == InitPrompt /\ [][NextPrompt]_vars

----------------------------------------------------------------------------
(* Properties of the retry loop *)

Errors == {"ValueError_invalid_json", "Exception_api_error", "ValueError_failed"}

\* what the oracle did on the last call that has resolved
LastOutcome == IF history = <<>> THEN "no_call" ELSE history[Len(history)]

\* C1: when every oracle call so far returned a text that is no JSON, the
\* orchestrator has not ended before max_retries calls were made, and for
\* max_retries >= 1 it ends after exactly max_retries calls with the
\* "invalid JSON after N attempts" ValueError, not with the provider error.
C1_RetryExhaustion ==
    (max_retries >= 1 /\ \A i \in DOMAIN history : history[i] = "text") =>
        /\ calls <= max_retries
        /\ pc # "done" => result = "none"
        /\ pc = "done" =>
              /\ calls = max_retries
              /\ Len(history) = max_retries
              /\ result = "ValueError_invalid_json"

C1_Witness ==
    /\ pc = "done"
    /\ max_retries = 3
    /\ history = <<"text", "text", "text">>
    /\ calls = 3
    /\ result = "ValueError_invalid_json"

\* C2: once a call returned a JSON object that violates the schema, the
\* orchestrator has ended with an error and every call it started is that
\* call or an earlier one: no further call, and exactly one call when the
\* violation is in the first payload.
C2_SchemaViolationShortCircuits ==
    LastOutcome = "invalid_object" =>
        /\ ~SchemaValid(payload.data)
        /\ pc = "done"
        /\ result \in Errors
        /\ calls = Len(history)
        /\ Len(history) = 1 => calls = 1

C2_Witness ==
    /\ max_retries = 3
    /\ history = <<"invalid_object">>
    /\ payload.data.tracks = <<>>
    /\ calls = 1
    /\ pc = "done"

\* C3: once an oracle call failed with a provider or transport error, the
\* orchestrator has ended, it started no further call, and its error is not
\* the decode error of retry exhaustion.
C3_ProviderFailureNotRetried ==
    LastOutcome = "provider_failure" =>
        /\ pc = "done"
        /\ calls = Len(history)
        /\ result \in Errors
        /\ result # "ValueError_invalid_json"

C3_Witness ==
    /\ max_retries = 3
    /\ history = <<"text", "provider_failure">>
    /\ calls = 2
    /\ pc = "done"
    /\ result = "Exception_api_error"

\* C4: an empty or missing payload is a decode failure: with attempts left
\* the loop goes on to the next attempt, on the last attempt the
\* orchestrator fails with the decode error.
C4_EmptyPayloadIsDecodeFailure ==
    LastOutcome = "nothing" =>
        IF Len(history) < max_retries
        THEN pc \in {"loop", "calling"} /\ result = "none"
        ELSE pc = "done" /\ result = "ValueError_invalid_json"

----------------------------------------------------------------------------
(* Properties of the length validator and extender *)

\* the composition as the schema validated it, before the length check
Original == payload.data

\* expectedBeats of a request in 4/4, in ticks
ExpectedBeats == bars * 4 * Beat

\* coverage of a note list: the largest start + duration, 0 without notes
Coverage(notes) ==
    IF notes = <<>> THEN 0
    ELSE CHOOSE c \in {notes[i].start_time + notes[i].duration : i \in DOMAIN notes} :
            \A i \in DOMAIN notes : notes[i].start_time + notes[i].duration <= c

\* coverage < 0.75 x expectedBeats
Insufficient(notes) == 4 * Coverage(notes) < 3 * ExpectedBeats

Returned == pc = "done" /\ result = "returned"

\* the extension branch was taken
Extended == Returned /\ needs_extension

\* C5: in the composition returned, every track with a note has coverage
\* >= 0.75 x expectedBeats, and every track of an extended composition has
\* coverage <= expectedBeats.
C5_NoTrackStaysInsufficient ==
    Returned =>
        \A i \in DOMAIN music_schema.tracks :
            LET notes == music_schema.tracks[i].notes
            IN  /\ notes # <<>> => ~Insufficient(notes)
                /\ needs_extension => Coverage(notes) <= ExpectedBeats

\* C6 as claimed: when the extension is triggered, every track that is not
\* itself insufficient is returned verbatim.
C6_SufficientTracksVerbatim ==
    Extended =>
        \A i \in DOMAIN Original.tracks :
            ~Insufficient(Original.tracks[i].notes) =>
                music_schema.tracks[i] = Original.tracks[i]

\* no note passes expectedBeats and no copy of a later repetition starts
\* before expectedBeats
NothingToAddOrClip(notes) ==
    \A i \in DOMAIN notes :
        /\ notes[i].start_time + notes[i].duration <= ExpectedBeats
        /\ notes[i].start_time + PatternLength(Coverage(notes)) >= ExpectedBeats

\* C6 as amended: when the extension is triggered, a track with notes that
\* is not itself insufficient is returned verbatim exactly when none of its
\* notes passes expectedBeats and none of its notes, shifted by its pattern
\* length, starts before expectedBeats; a track without notes is returned
\* verbatim.
C6_VerbatimExactlyWhenNothingToAdd ==
    Extended =>
        \A i \in DOMAIN Original.tracks :
            LET notes == Original.tracks[i].notes
            IN  /\ notes = <<>> => music_schema.tracks[i] = Original.tracks[i]
                /\ (notes # <<>> /\ ~Insufficient(notes)) =>
                      (music_schema.tracks[i] = Original.tracks[i] <=> NothingToAddOrClip(notes))

C6_Witness ==
    /\ Extended
    /\ \E i \in DOMAIN Original.tracks :
          /\ Original.tracks[i].notes # <<>>
          /\ ~Insufficient(Original.tracks[i].notes)
          /\ NothingToAddOrClip(Original.tracks[i].notes)
          /\ music_schema.tracks[i] = Original.tracks[i]

\* C7: when every track of the composition has coverage >= expectedBeats,
\* the extension branch is not entered and every note list is returned
\* unchanged.
C7_SufficientInputUnchanged ==
    (Returned /\ \A i \in DOMAIN Original.tracks :
                    Coverage(Original.tracks[i].notes) >= ExpectedBeats) =>
        /\ ~needs_extension
        /\ \A i \in DOMAIN Original.tracks :
              music_schema.tracks[i].notes = Original.tracks[i].notes

C7_Witness ==
    /\ Returned
    /\ Len(Original.tracks) = 2
    /\ \A i \in DOMAIN Original.tracks : Coverage(Original.tracks[i].notes) >= ExpectedBeats
    /\ \E i \in DOMAIN Original.tracks : Coverage(Original.tracks[i].notes) > ExpectedBeats
    /\ music_schema = Original

\* C8: the extension is triggered exactly when some track has coverage
\* < 0.75 x expectedBeats; the note counts play no part.
C8_TriggeredIffCoverageBelowThreshold ==
    Returned =>
        /\ needs_extension <=>
              \E i \in DOMAIN Original.tracks : Insufficient(Original.tracks[i].notes)
        /\ ~needs_extension => music_schema = Original

\* coverage exactly 0.75 x expectedBeats, fewer notes than the diagnostic
\* minimum, and no extension
C8_Witness ==
    /\ Returned
    /\ ~needs_extension
    /\ \E i \in DOMAIN Original.tracks :
          /\ 4 * Coverage(Original.tracks[i].notes) = 3 * ExpectedBeats
          /\ TooFew(Original.tracks[i], bars)

\* the copies of the claim: repetition r = 0 .. floor(expectedBeats /
\* patternLength), each original note in order, start shifted by r x
\* patternLength, kept when it starts before expectedBeats, duration
\* min(duration, expectedBeats - start)
ClaimedCopies(notes) ==
    LET n == Len(notes)
        p == PatternLength(Coverage(notes))
        R == ExpectedBeats \div p
        Min(a, b) == IF a <= b THEN a ELSE b
        StartOf(k) == notes[((k - 1) % n) + 1].start_time + ((k - 1) \div n) * p
        all == [k \in 1..((R + 1) * n) |->
                   [pitch |-> notes[((k - 1) % n) + 1].pitch,
                    start_time |-> StartOf(k),
                    duration |-> Min(notes[((k - 1) % n) + 1].duration, ExpectedBeats - StartOf(k)),
                    velocity |-> notes[((k - 1) % n) + 1].velocity]]
        Kept(c) == c.start_time < ExpectedBeats
    IN  SelectSeq(all, Kept)

\* C9: the note list of an extended track is the list of the claimed
\* copies; one 1-beat note at beat 0 with 16 expected beats gives four notes
\* at beats 0, 4, 8, 12 with duration 1, the pitch and the velocity kept.
C9_ExtensionCorrectness ==
    Extended =>
        \A i \in DOMAIN Original.tracks :
            LET notes == Original.tracks[i].notes
                out == music_schema.tracks[i].notes
            IN  /\ notes # <<>> => out = ClaimedCopies(notes)
                /\ (bars = 4 /\ Len(notes) = 1 /\ notes[1].start_time = 0
                        /\ notes[1].duration = Beat) =>
                      out = [r \in 1..4 |->
                                Note(notes[1].pitch, (r - 1) * 4 * Beat, Beat, notes[1].velocity)]

C9_Witness ==
    /\ Extended
    /\ bars = 4
    /\ \E i \in DOMAIN Original.tracks :
          /\ Original.tracks[i].notes = <<Note(36, 0, Beat, 80)>>
          /\ Len(music_schema.tracks[i].notes) = 4
          /\ music_schema.tracks[i].notes[4] = Note(36, 12 * Beat, Beat, 80)

\* C10: every note of an extended composition starts in [0, expectedBeats),
\* has a positive duration and ends at or before expectedBeats; a note of
\* duration 2 at beat 15 with 16 expected beats comes out as start 15,
\* duration 1.
C10_Clipping ==
    Extended =>
        \A i \in DOMAIN music_schema.tracks :
            LET notes == Original.tracks[i].notes
                out == music_schema.tracks[i].notes
            IN  /\ \A k \in DOMAIN out :
                      /\ 0 <= out[k].start_time
                      /\ out[k].start_time < ExpectedBeats
                      /\ out[k].duration > 0
                      /\ out[k].start_time + out[k].duration <= ExpectedBeats
                /\ (bars = 4 /\ Len(notes) = 1 /\ notes[1].start_time = 15 * Beat
                        /\ notes[1].duration = 2 * Beat) =>
                      out = <<Note(notes[1].pitch, 15 * Beat, Beat, notes[1].velocity)>>

C10_Witness ==
    /\ Extended
    /\ bars = 4
    /\ \E i \in DOMAIN Original.tracks :
          /\ Original.tracks[i].notes = <<Note(36, 15 * Beat, 2 * Beat, 80)>>
          /\ music_schema.tracks[i].notes = <<Note(36, 15 * Beat, Beat, 80)>>

----------------------------------------------------------------------------
(* Properties of what the pipeline returns *)

\* C11: every composition returned has at least one track, and at least one
\* of its tracks has at least one note.
C11_ReturnedIsWellFormed ==
    Returned =>
        /\ Len(music_schema.tracks) >= 1
        /\ \E i \in DOMAIN music_schema.tracks : music_schema.tracks[i].notes # <<>>

\* expectedBeats of the request for the declared time signature of the
\* composition: bars x the numerator, in ticks
ExpectedBeatsOf(d) == bars * d.metadata.time_signature[1] * Beat

\* C12: the length check and the extender work with expectedBeats = bars x
\* the numerator of the composition's time signature: the extension is
\* triggered exactly when a track covers less than 0.75 x that length, and
\* no note of an extended composition ends after it.
C12_ExpectedBeatsFollowTimeSignature ==
    Returned =>
        /\ needs_extension <=>
              \E i \in DOMAIN Original.tracks :
                  4 * Coverage(Original.tracks[i].notes) < 3 * ExpectedBeatsOf(Original)
        /\ needs_extension =>
              \A i \in DOMAIN music_schema.tracks :
                  Coverage(music_schema.tracks[i].notes) <= ExpectedBeatsOf(Original)

----------------------------------------------------------------------------
(* Properties of the temporal converter *)

Rendered == Returned /\ midi # NoMidi

\* a < b and a <= b for two floats
Less(a, b) == a.num * b.den < b.num * a.den
LessEq(a, b) == a.num * b.den <= b.num * a.den

\* the float f is n / d up to the round-off of a few operations: a relative
\* error of at most 2^-(MantissaBits - 3)
Close(f, n, d) ==
    LET diff == f.num * d - n * f.den
        abs == IF diff < 0 THEN 0 - diff ELSE diff
    IN  abs * Pow2(MantissaBits - 3) <= n * f.den

\* seconds of a time in ticks at the declared tempo are Close to
\* ticks x 60 / (tempo x TicksPerBeat); at tempo 120 a note with start 2,
\* duration 1 gives exactly 1.0 and 1.5; a larger start_time never gives a
\* smaller start
ConversionFormula ==
    \A i \in DOMAIN music_schema.tracks : \A k \in DOMAIN music_schema.tracks[i].notes :
        LET n == music_schema.tracks[i].notes[k]
            m == midi.instruments[i].notes[k]
            T == music_schema.metadata.tempo
        IN  /\ Close(m.start, n.start_time * 60, T * TicksPerBeat)
            /\ Close(m.end, (n.start_time + n.duration) * 60, T * TicksPerBeat)
            /\ (T = 120 /\ n.start_time = 2 * Beat /\ n.duration = Beat) =>
                  m.start = Rat(1, 1) /\ m.end = Rat(3, 2)
            /\ \A j \in DOMAIN music_schema.tracks : \A l \in DOMAIN music_schema.tracks[j].notes :
                  n.start_time <= music_schema.tracks[j].notes[l].start_time =>
                      LessEq(m.start, midi.instruments[j].notes[l].start)

Absorbed(n) == FloatAdd(FloatOfTicks(n.start_time), FloatOfTicks(n.duration)) = FloatOfTicks(n.start_time)

----------------------------------------------------------------------------
(* Properties of the prompt constructor *)

\* the prompt has been built
Built == pc # "start"

\* the decimal numeral of n >= 0, digit by digit
RECURSIVE NumDigits(_)
NumDigits(n) == IF n < 10 THEN 1 ELSE 1 + NumDigits(n \div 10)

RECURSIVE Pow10(_)
Pow10(k) == IF k = 0 THEN 1 ELSE 10 * Pow10(k - 1)

Numeral(n) ==
    [i \in 1..NumDigits(n) |-> DigitChars[((n \div Pow10(NumDigits(n) - i)) % 10) + 1]]

\* part occurs in whole as a run of consecutive pieces
Contains(whole, part) ==
    \E i \in 1..(Len(whole) - Len(part) + 1) : SubSeq(whole, i, i + Len(part) - 1) = part

\* C14: for every genre, mood, tempo (absent or in 60..180) and bars in
\* {4, 8, 16} the prompt constructor returns a prompt; the prompt is not
\* empty, it is the value the constructor gives for the four arguments of
\* the request, and it contains the numeral of bars and the numeral of
\* bars x 4.
C14_PromptConstructor ==
    /\ (pc = "start") => ENABLED BuildPrompt
    /\ Built =>
          /\ prompt # <<>>
          /\ prompt = BuildMusicGenerationPrompt(genre, mood, tempo, bars)
          /\ Contains(prompt, Numeral(bars))
          /\ Contains(prompt, Numeral(bars * 4))

\* sixteen bars of a genre outside the table with no tempo
C14_Witness ==
    /\ Built
    /\ bars = 16
    /\ genre = "polka"
    /\ tempo = Absent
    /\ Contains(prompt, <<"6", "4">>)
    /\ Contains(prompt, <<"Choose an appropriate tempo in the range ", "90-130">>)

----------------------------------------------------------------------------
(* Properties of the pattern length and of the tracks the extender keeps *)

\* the note list the extension algorithm gives for pattern length p
CopiesWithPattern(notes, p) ==
    LET n == Len(notes)
        R == ExpectedBeats \div p
        Min(a, b) == IF a <= b THEN a ELSE b
        StartOf(k) == notes[((k - 1) % n) + 1].start_time + ((k - 1) \div n) * p
        all == [k \in 1..((R + 1) * n) |->
                   [pitch |-> notes[((k - 1) % n) + 1].pitch,
                    start_time |-> StartOf(k),
                    duration |-> Min(notes[((k - 1) % n) + 1].duration, ExpectedBeats - StartOf(k)),
                    velocity |-> notes[((k - 1) % n) + 1].velocity]]
        Kept(c) == c.start_time < ExpectedBeats
    IN  SelectSeq(all, Kept)

\* p is a pattern length the claim allows for coverage cov: a positive
\* multiple of 4 beats, 4 beats when cov is nearer to 0 than to 4, and
\* otherwise at most 2 beats from cov
AllowedPatternLength(p, cov) ==
    /\ p > 0
    /\ p % (4 * Beat) = 0
    /\ 2 * cov < 4 * Beat => p = 4 * Beat
    /\ 2 * cov >= 4 * Beat => (p - cov <= 2 * Beat /\ cov - p <= 2 * Beat)

\* the multiples of 4 beats up to the bar after the coverage
PatternLengths(cov) == {k * 4 * Beat : k \in 1..((cov \div (4 * Beat)) + 1)}

\* C15: every track with a note is extended with a pattern length that its
\* own coverage allows, whatever the other tracks hold.
C15_PatternLengthFromOwnCoverage ==
    Extended =>
        \A i \in DOMAIN Original.tracks :
            LET notes == Original.tracks[i].notes
            IN  notes # <<>> =>
                   \E p \in PatternLengths(Coverage(notes)) :
                       /\ AllowedPatternLength(p, Coverage(notes))
                       /\ music_schema.tracks[i].notes = CopiesWithPattern(notes, p)

\* two tracks of one composition extended with different pattern lengths:
\* 4 beats for coverage 1, 12 beats for coverage 11
C15_Witness ==
    /\ Extended
    /\ Len(Original.tracks) = 2
    /\ Coverage(Original.tracks[1].notes) = Beat
    /\ Coverage(Original.tracks[2].notes) = 11 * Beat
    /\ music_schema.tracks[1].notes = CopiesWithPattern(Original.tracks[1].notes, 4 * Beat)
    /\ music_schema.tracks[2].notes = CopiesWithPattern(Original.tracks[2].notes, 12 * Beat)
    /\ music_schema.tracks[2].notes # CopiesWithPattern(Original.tracks[2].notes, 4 * Beat)

\* C16: a track without notes has coverage 0 and comes out of the extender
\* as it went in: at the same position, with the same name, instrument
\* label and program number and an empty note list, whatever the other
\* tracks hold.
C16_EmptyTrackUntouched ==
    Extended =>
        /\ Len(music_schema.tracks) = Len(Original.tracks)
        /\ \A i \in DOMAIN Original.tracks :
              Original.tracks[i].notes = <<>> =>
                  /\ Coverage(Original.tracks[i].notes) = 0
                  /\ TrackMax(Original.tracks[i].notes) = 0
                  /\ music_schema.tracks[i].name = Original.tracks[i].name
                  /\ music_schema.tracks[i].instrument = Original.tracks[i].instrument
                  /\ music_schema.tracks[i].midi_program = Original.tracks[i].midi_program
                  /\ music_schema.tracks[i].notes = <<>>

\* an empty first track in front of a track that the extender rewrote
C16_Witness ==
    /\ Extended
    /\ Len(Original.tracks) = 2
    /\ Original.tracks[1].notes = <<>>
    /\ music_schema.tracks[1] = Original.tracks[1]
    /\ Original.tracks[2].notes # <<>>
    /\ music_schema.tracks[2].notes # Original.tracks[2].notes

----------------------------------------------------------------------------
(* More properties of the retry loop *)

\* C17: at most one oracle call is outstanding; every call but the first
\* starts after the call before it has resolved with a text that is no
\* JSON and the decode error has been taken by the retrying except clause;
\* every call sends the prompt that was built once, before the first call.
C17_SequentialRetries ==
    /\ calls - Len(history) \in {0, 1}
    /\ calls - Len(history) = 1 <=> pc = "calling"
    /\ \A i \in 1..(calls - 1) : history[i] = "text"
    /\ calls >= 2 => last_error = "JSONDecodeError"
    /\ Len(sent) = calls
    /\ calls >= 1 => Built
    /\ Built => prompt = BuildMusicGenerationPrompt(genre, mood, tempo, bars)
    /\ \A i \in DOMAIN sent : sent[i] = prompt

\* the third call outstanding after two decode failures
C17_Witness ==
    /\ pc = "calling"
    /\ calls = 3
    /\ history = <<"text", "text">>
    /\ sent = <<prompt, prompt, prompt>>
    /\ prompt # <<>>

\* the request has ended with one outcome: a schema-valid composition, or
\* an error and no composition
OneOutcome ==
    \/ result = "returned" /\ SchemaValid(music_schema)
    \/ result \in Errors /\ music_schema = NoData

\* the safety part of C18
C18_Outcome ==
    /\ calls <= max_retries
    /\ pc = "done" <=> result # "none"
    /\ pc = "done" => OneOutcome
    /\ Returned =>
          /\ Len(history) = calls
          /\ \A i \in 1..(calls - 1) : history[i] = "text"
          /\ history[calls] = "composition"
          /\ payload.kind = "json"
          /\ SchemaValid(payload.data)
    /\ max_retries = 0 => (calls = 0 /\ result \in {"none", "ValueError_failed"})

\* C18: whatever the oracle does and whatever max_retries >= 0 is, the
\* request ends, after at most max_retries oracle calls, with exactly one
\* outcome, a schema-valid composition or an error; a composition is
\* returned at call k only when calls 1..k-1 each gave a text that is no
\* JSON and call k gave an object that passed schema validation; with
\* max_retries = 0 no call is made and the request fails.
C18_TerminatesWithOneOutcome == []C18_Outcome /\ <>(pc = "done")

\* a composition returned at the third call
C18_Witness ==
    /\ Returned
    /\ max_retries = 3
    /\ calls = 3
    /\ history = <<"text", "text", "composition">>
    /\ SchemaValid(music_schema)

\* C19: the extension changes note lists only: the metadata, the number
\* and order of the tracks and each track's name, instrument label and
\* program number are after the extension what they were before.
C19_ExtensionKeepsEverythingButNotes ==
    Extended =>
        /\ music_schema.metadata = Original.metadata
        /\ DOMAIN music_schema = DOMAIN Original
        /\ Len(music_schema.tracks) = Len(Original.tracks)
        /\ \A i \in DOMAIN Original.tracks :
              /\ music_schema.tracks[i].name = Original.tracks[i].name
              /\ music_schema.tracks[i].instrument = Original.tracks[i].instrument
              /\ music_schema.tracks[i].midi_program = Original.tracks[i].midi_program

\* both tracks of a composition rewritten, each under its own head
C19_Witness ==
    /\ Extended
    /\ Len(Original.tracks) = 2
    /\ \A i \in 1..2 :
          /\ music_schema.tracks[i].notes # Original.tracks[i].notes
          /\ music_schema.tracks[i].name = TrackHead(i).name
          /\ music_schema.tracks[i].instrument = TrackHead(i).instrument
          /\ music_schema.tracks[i].midi_program = TrackHead(i).midi_program

----------------------------------------------------------------------------
(* Properties of the rendering of tracks *)

\* C20: a track with program number 0 whose name is "drums", in whatever
\* case, is rendered as a percussion voice, whatever its instrument label.
C20_DrumNamedTrackIsPercussion ==
    Rendered =>
        \A i \in DOMAIN music_schema.tracks :
            (music_schema.tracks[i].midi_program = 0
                 /\ Lower(music_schema.tracks[i].name) = "drums") =>
                midi.instruments[i].is_drum

----------------------------------------------------------------------------
(* Properties of the knowledge tables of the prompt *)

\* a genre or mood of the model in lower case, nothing else changed
LowerCase(word) ==
    CASE word = "EDM" -> "edm"
      [] word = "Hip-Hop" -> "hip-hop"
      [] word = "Jazz" -> "jazz"
      [] word = "Lo-Fi" -> "lo-fi"
      [] word = "Happy" -> "happy"
      [] word = "SAD" -> "sad"
      [] word = "Energetic" -> "energetic"
      [] OTHER -> word

\* C21: a genre that, in lower case, has an entry in the genre table gets a
\* prompt with that entry's tempo range and description, and any other
\* genre gets the generic ones; a mood that, in lower case, has an entry
\* in the mood table gets a prompt with that entry, and any other mood
\* gets the generic hint.
C21_TableLookupIgnoresCase ==
    Built =>
        /\ IF LowerCase(genre) \in DOMAIN GENRE_GUIDELINES
           THEN /\ Contains(prompt, <<GENRE_GUIDELINES[LowerCase(genre)].description>>)
                /\ Contains(prompt, <<GENRE_GUIDELINES[LowerCase(genre)].tempo_range>>)
           ELSE /\ Contains(prompt, <<"General music style">>)
                /\ Contains(prompt, <<"90-130">>)
        /\ IF LowerCase(mood) \in DOMAIN MOOD_GUIDELINES
           THEN Contains(prompt, <<MOOD_GUIDELINES[LowerCase(mood)]>>)
           ELSE Contains(prompt, <<"Appropriate to the specified mood">>)

----------------------------------------------------------------------------
(* Properties of the extender applied again, and of what it keeps *)

\* C22: the length check and extension applied, with the same bars, to the
\* composition returned give that composition back, every note list
\* unchanged.
C22_IdempotentOnOwnOutput ==
    Returned => ValidateLength(music_schema, bars) = music_schema

\* the original notes are the first entries of the extended list
KeptInFront(notes, out) ==
    /\ Len(out) >= Len(notes)
    /\ SubSeq(out, 1, Len(notes)) = notes

\* every note ends at or before expectedBeats
AllEndInside(notes) ==
    \A k \in DOMAIN notes : notes[k].start_time + notes[k].duration <= ExpectedBeats

\* C23 as claimed: a track with a note before the extension has a note
\* after it, and when all its notes end at or before expectedBeats they are,
\* unchanged and in order, the first entries of the extended list.
C23_ExtensionKeepsContent ==
    Extended =>
        \A i \in DOMAIN Original.tracks :
            LET notes == Original.tracks[i].notes
                out == music_schema.tracks[i].notes
            IN  /\ notes # <<>> => out # <<>>
                /\ AllEndInside(notes) => KeptInFront(notes, out)

\* C23 as amended: a track has a note after the extension exactly when one
\* of its notes starts before expectedBeats, so a track whose notes all
\* start at or after expectedBeats comes out empty; when all its notes end
\* at or before expectedBeats they are, unchanged and in order, the first
\* entries of the extended list.
C23_KeepsContentInsideTarget ==
    Extended =>
        \A i \in DOMAIN Original.tracks :
            LET notes == Original.tracks[i].notes
                out == music_schema.tracks[i].notes
            IN  /\ out # <<>> <=> \E k \in DOMAIN notes : notes[k].start_time < ExpectedBeats
                /\ AllEndInside(notes) => KeptInFront(notes, out)

\* a track of two different notes inside the target that got copies behind
\* them
C23_Witness ==
    /\ Extended
    /\ \E i \in DOMAIN Original.tracks :
          /\ Len(Original.tracks[i].notes) = 2
          /\ Original.tracks[i].notes[1] # Original.tracks[i].notes[2]
          /\ AllEndInside(Original.tracks[i].notes)
          /\ KeptInFront(Original.tracks[i].notes, music_schema.tracks[i].notes)
          /\ Len(music_schema.tracks[i].notes) > 2

----------------------------------------------------------------------------
(* Properties of the bar count reported *)

\* C24: the composition returned for a request of bars bars declares that
\* bar count in its metadata, and the X-Bars header carries its numeral.
C24_ReportedBarsAreRequestedBars ==
    Returned =>
        /\ music_schema.metadata.bars = bars
        /\ XBars(music_schema) = Numeral(bars)

====
